---- MODULE Spec2Model ----
(***************************************************************************)
(* Model of the MBRAS feed analyzer (src/app): analyze_feed and the        *)
(* components it drives (normalizer/tokenizer, sentiment scorer,           *)
(* engagement/influence ranker, anomaly detectors).                        *)
(*                                                                         *)
(* Representation.                                                         *)
(*  - Text (message content, user ids) is a sequence of Unicode code       *)
(*    points.  The alphabet of the model is printable ASCII (32..126),     *)
(*    U+00A9 and the Latin-1 letters 192..255; the character operators     *)
(*    below are what Python computes on that alphabet.                     *)
(*  - Instants are integer seconds.                                        *)
(*  - Floats are replaced by exact fixed-point or rational values:         *)
(*    sentiment scores are rationals [n, d]; percentages are hundredths;   *)
(*    engagement_score is in units of 1e-4; engagement_rate and            *)
(*    influence_score are in units of 1e-6 (influence_score as whole part  *)
(*    and micro part, to stay inside TLC's 32-bit integers).               *)
(*  - trending_topics is not part of the modelled report: its weights are  *)
(*    IEEE doubles summed in list order (src/app/trending.py:34-38).       *)
(***************************************************************************)
EXTENDS Integers, Sequences, FiniteSets, TLC

VARIABLES
    messages,             \* payload.messages: the input list
    time_window_minutes,  \* payload.time_window_minutes
    request_time,         \* the evaluation instant (seconds)
    pc,                   \* "called" | "returned" | "raised"
    error,                \* the AnalysisError message, "" when none
    filtered_messages,    \* analyze_feed's local of that name
    analysis              \* the returned report, NoReport before / on error

vars == <<messages, time_window_minutes, request_time, pc, error,
          filtered_messages, analysis>>

(***************************************************************************)
(* utils.py                                                                *)
(***************************************************************************)

\* str.lower() on one character of the alphabet.
LowerChar(c) ==
    IF c \in 65..90 \/ (c \in 192..222 /\ c # 215) THEN c + 32 ELSE c

lower(text) == [i \in 1..Len(text) |-> LowerChar(text[i])]

\* normalize_token on one character: lower(), NFKD, combining marks dropped.
\* On the alphabet every character normalizes to exactly one character.
NormalizeChar(c) ==
    CASE c \in 65..90 -> c + 32
      [] c \in (192..197) \cup (224..229) -> 97
      [] c \in {199, 231} -> 99
      [] c \in (200..203) \cup (232..235) -> 101
      [] c \in (204..207) \cup (236..239) -> 105
      [] c \in {209, 241} -> 110
      [] c \in (210..214) \cup (242..246) -> 111
      [] c \in (217..220) \cup (249..252) -> 117
      [] c \in {221, 253, 255} -> 121
      [] c \in {198, 208, 216, 222} -> c + 32
      [] OTHER -> c

normalize_token(token) == [i \in 1..Len(token) |-> NormalizeChar(token[i])]

\* \w of TOKEN_REGEX (re.UNICODE) on the alphabet.
IsWordChar(c) ==
    \/ c \in 48..57
    \/ c \in 65..90
    \/ c \in 97..122
    \/ c = 95
    \/ (c \in 192..255 /\ c \notin {215, 247})

RECURSIVE WordEnd(_, _)
\* One past the end of the maximal \w+ run that starts at i.
WordEnd(text, i) ==
    IF i <= Len(text) /\ IsWordChar(text[i]) THEN WordEnd(text, i + 1) ELSE i

RECURSIVE HashtagEnd(_, _)
\* One past the end of (?:-\w+)* starting at j.
HashtagEnd(text, j) ==
    IF j + 1 <= Len(text) /\ text[j] = 45 /\ IsWordChar(text[j + 1])
    THEN HashtagEnd(text, WordEnd(text, j + 1))
    ELSE j

RECURSIVE TokenizeFrom(_, _)
\* TOKEN_REGEX.findall from position i: (?:#\w+(?:-\w+)*)|\b\w+\b
TokenizeFrom(text, i) ==
    IF i > Len(text) THEN <<>>
    ELSE IF text[i] = 35 /\ i + 1 <= Len(text) /\ IsWordChar(text[i + 1])
    THEN LET j == HashtagEnd(text, WordEnd(text, i + 1))
         IN  <<SubSeq(text, i, j - 1)>> \o TokenizeFrom(text, j)
    ELSE IF IsWordChar(text[i]) /\ (i = 1 \/ ~IsWordChar(text[i - 1]))
    THEN LET j == WordEnd(text, i)
         IN  <<SubSeq(text, i, j - 1)>> \o TokenizeFrom(text, j)
    ELSE TokenizeFrom(text, i + 1)

tokenize(text) == TokenizeFrom(text, 1)

\* `fragment in text` on already normalized sequences.
Contains(text, fragment) ==
    \E i \in 1..(Len(text) - Len(fragment) + 1) :
        SubSeq(text, i, i + Len(fragment) - 1) = fragment

accent_insensitive_contains(text, fragment) ==
    Contains(normalize_token(text), normalize_token(fragment))

\* str.endswith
EndsWith(text, suffix) ==
    /\ Len(text) >= Len(suffix)
    /\ SubSeq(text, Len(text) - Len(suffix) + 1, Len(text)) = suffix

RECURSIVE IsPrimeFrom(_, _)
\* next_prime.is_prime's while loop from divisor i.
IsPrimeFrom(x, i) ==
    IF i * i > x THEN TRUE
    ELSE IF x % i = 0 \/ x % (i + 2) = 0 THEN FALSE
    ELSE IsPrimeFrom(x, i + 6)

is_prime(x) ==
    IF x <= 1 THEN FALSE
    ELSE IF x <= 3 THEN TRUE
    ELSE IF x % 2 = 0 \/ x % 3 = 0 THEN FALSE
    ELSE IsPrimeFrom(x, 5)

RECURSIVE NextPrimeFrom(_)
NextPrimeFrom(candidate) ==
    IF is_prime(candidate) THEN candidate ELSE NextPrimeFrom(candidate + 1)

next_prime(n) == NextPrimeFrom(IF n > 2 THEN n ELSE 2)

RECURSIVE FibLoop(_, _, _)
\* `for _ in range(n): a, b = b, a + b`, k iterations left.
FibLoop(k, a, b) == IF k = 0 THEN a ELSE FibLoop(k - 1, b, a + b)

\* fibonacci(n) for n > 0 (the model never calls it with n <= 0).
fibonacci(n) == FibLoop(n, 0, 1)

(***************************************************************************)
(* constants.py                                                            *)
(***************************************************************************)

\* SENTIMENT_LEXICON: <<token, polarity in tenths>>.
SENTIMENT_LEXICON == {
    <<<<97,100,111,114,101,105>>, 10>>,                    \* adorei
    <<<<97,100,111,114,111>>, 10>>,                        \* adoro
    <<<<97,109,111>>, 12>>,                                \* amo
    <<<<101,120,99,101,108,101,110,116,101>>, 13>>,        \* excelente
    <<<<111,116,105,109,111>>, 12>>,                       \* otimo
    <<<<243,116,105,109,111>>, 12>>,                       \* o'timo (U+00F3)
    <<<<98,111,109>>, 10>>,                                \* bom
    <<<<103,111,115,116,101,105>>, 10>>,                   \* gostei
    <<<<112,101,114,102,101,105,116,111>>, 13>>,           \* perfeito
    <<<<105,110,99,114,105,118,101,108>>, 13>>,            \* incrivel
    <<<<105,110,99,114,237,118,101,108>>, 13>>,            \* incri'vel (U+00ED)
    <<<<102,97,110,116,97,115,116,105,99,111>>, 13>>,      \* fantastico
    <<<<102,97,110,116,225,115,116,105,99,111>>, 13>>,     \* fanta'stico (U+00E1)
    <<<<115,97,116,105,115,102,101,105,116,111>>, 9>>,     \* satisfeito
    <<<<114,117,105,109>>, -10>>,                          \* ruim
    <<<<112,233,115,115,105,109,111>>, -14>>,              \* pe'ssimo (U+00E9)
    <<<<112,101,115,115,105,109,111>>, -14>>,              \* pessimo
    <<<<116,101,114,114,105,118,101,108>>, -13>>,          \* terrivel
    <<<<116,101,114,114,237,118,101,108>>, -13>>,          \* terri'vel
    <<<<104,111,114,114,105,118,101,108>>, -15>>,          \* horrivel
    <<<<104,111,114,114,237,118,101,108>>, -15>>,          \* horri'vel
    <<<<111,100,101,105,111>>, -12>>,                      \* odeio
    <<<<100,101,116,101,115,116,101,105>>, -11>>,          \* detestei
    <<<<105,110,115,117,112,111,114,116,97,118,101,108>>, -13>>,   \* insuportavel
    <<<<105,110,115,117,112,111,114,116,225,118,101,108>>, -13>>,  \* insuporta'vel
    <<<<108,97,109,101,110,116,97,118,101,108>>, -12>>,    \* lamentavel
    <<<<108,97,109,101,110,116,225,118,101,108>>, -12>> }  \* lamenta'vel

INTENSIFIERS == {
    <<109,117,105,116,111>>,                               \* muito
    <<115,117,112,101,114>>,                               \* super
    <<98,101,109>>,                                        \* bem
    <<100,101,109,97,105,115>>,                            \* demais
    <<109,101,103,97>>,                                    \* mega
    <<101,120,116,114,101,109,97,109,101,110,116,101>>,    \* extremamente
    <<116,111,116,97,108,109,101,110,116,101>> }           \* totalmente

NEGATIONS == {
    <<110,97,111>>,                                        \* nao
    <<110,227,111>>,                                       \* na~o (U+00E3)
    <<110,117,110,99,97>>,                                 \* nunca
    <<106,97,109,97,105,115>>,                             \* jamais
    <<115,101,109>> }                                      \* sem

\* INTENSIFIER_FACTOR = 1.5 as the fraction 3/2.
INTENSIFIER_FACTOR == [n |-> 3, d |-> 2]

MBRAS_POSITIVE_FACTOR == 2

NEGATION_SCOPE == 3

(***************************************************************************)
(* Exact arithmetic standing in for Python floats                          *)
(***************************************************************************)

Abs(x) == IF x < 0 THEN -x ELSE x

RECURSIVE GCD(_, _)
GCD(a, b) == IF b = 0 THEN a ELSE GCD(b, a % b)

\* The fraction n/d (d > 0) in lowest terms.
Rat(n, d) == LET g == GCD(Abs(n), d) IN [n |-> n \div g, d |-> d \div g]

\* 0.0 and 1.0
Zero == [n |-> 0, d |-> 1]

One == [n |-> 1, d |-> 1]

RatAdd(x, y) == Rat(x.n * y.d + y.n * x.d, x.d * y.d)

RatMul(x, y) == Rat(x.n * y.n, x.d * y.d)

\* Mutant: rounding up instead of to the nearest.
DivRoundUp(n, d) == IF n % d = 0 THEN n \div d ELSE n \div d + 1

\* round(n / d) to the nearest integer, ties to even (n >= 0, d > 0).
DivRound(n, d) ==
    LET q == n \div d
        r == n % d
    IN  IF 2 * r > d THEN q + 1
        ELSE IF 2 * r < d THEN q
        ELSE IF q % 2 = 0 THEN q ELSE q + 1

(***************************************************************************)
(* sentiment.py                                                            *)
(***************************************************************************)

\* META_PHRASE exactly as the source file spells it: the 20 characters
\* t e s t e SP t U+00C3 U+00A9 c n i c o SP m b r a s.
META_PHRASE ==
    <<116,101,115,116,101,32,116,195,169,99,110,105,99,111,32,109,98,114,97,115>>

RECURSIVE LStrip(_)
LStrip(text) ==
    IF Len(text) > 0 /\ text[1] = 32 THEN LStrip(Tail(text)) ELSE text

RECURSIVE RStrip(_)
RStrip(text) ==
    IF Len(text) > 0 /\ text[Len(text)] = 32
    THEN RStrip(SubSeq(text, 1, Len(text) - 1))
    ELSE text

\* str.strip(): the alphabet's only whitespace is the space.
Strip(text) == RStrip(LStrip(text))

is_meta_message(content) ==
    LET stripped == Strip(content)
    IN  IF Len(stripped) = 0 THEN FALSE
        ELSE normalize_token(stripped) = normalize_token(META_PHRASE)

\* classify_score on the rational score: score > 0.1, score < -0.1.
classify_score(score) ==
    IF 10 * score.n > score.d THEN "positive"
    ELSE IF 10 * score.n < -score.d THEN "negative"
    ELSE "neutral"

\* SENTIMENT_LEXICON.get(norm) is not None
InLexicon(norm) == \E e \in SENTIMENT_LEXICON : e[1] = norm

\* SENTIMENT_LEXICON[norm], in tenths
LexiconGet(norm) == (CHOOSE e \in SENTIMENT_LEXICON : e[1] = norm)[2]

MessageSentiment(score, label, token_count, is_meta) ==
    [score |-> score, label |-> label, token_count |-> token_count,
     is_meta |-> is_meta]

\* Indices (1-based) of the tokens whose normalized form is a negation.
NegationIndices(normalized_tokens) ==
    {i \in 1..Len(normalized_tokens) : normalized_tokens[i] \in NEGATIONS}

\* if score > 0: score *= MBRAS_POSITIVE_FACTOR
BoostPositive(score) ==
    IF score.n > 0 THEN [n |-> score.n * MBRAS_POSITIVE_FACTOR, d |-> score.d]
    ELSE score

\* if negation_count % 2 == 1: score *= -1
Negate(score, negation_count) ==
    IF negation_count % 2 = 1 THEN [n |-> -score.n, d |-> score.d] ELSE score

\* The score one lexicon token at index idx contributes.
TokenScore(base_score, pending_intensity, negation_indices, idx) ==
    BoostPositive(
        Negate(RatMul([n |-> base_score, d |-> 10], pending_intensity),
               Cardinality({n_idx \in negation_indices :
                               n_idx < idx /\ idx <= n_idx + NEGATION_SCOPE})))

RECURSIVE ScoreLoop(_, _, _, _, _, _, _)
\* The token loop of analyze_message from index idx on; returns
\* [total, analyzed].
ScoreLoop(tokens, norms, negs, idx, total_score, analyzed_tokens, pending) ==
    IF idx > Len(tokens) THEN [total |-> total_score, analyzed |-> analyzed_tokens]
    ELSE IF tokens[idx][1] = 35
    THEN ScoreLoop(tokens, norms, negs, idx + 1, total_score, analyzed_tokens,
                   pending)
    ELSE IF norms[idx] \in INTENSIFIERS
    THEN ScoreLoop(tokens, norms, negs, idx + 1, total_score,
                   analyzed_tokens + 1, RatMul(pending, INTENSIFIER_FACTOR))
    ELSE IF ~InLexicon(norms[idx])
    THEN ScoreLoop(tokens, norms, negs, idx + 1, total_score,
                   analyzed_tokens + 1, One)
    ELSE ScoreLoop(tokens, norms, negs, idx + 1,
                   RatAdd(total_score,
                          TokenScore(LexiconGet(norms[idx]), pending, negs, idx)),
                   analyzed_tokens + 1, One)

\* label = classify_score(average_score) and the returned MessageSentiment.
Classified(average_score, analyzed_tokens) ==
    MessageSentiment(average_score, classify_score(average_score),
                     analyzed_tokens, FALSE)

\* The end of analyze_message: out is the loop's [total, analyzed].
Averaged(out) ==
    IF out.analyzed = 0 THEN MessageSentiment(Zero, "neutral", 0, FALSE)
    ELSE Classified(Rat(out.total.n, out.total.d * out.analyzed), out.analyzed)

\* analyze_message from its normalized_tokens on.
ScoreNormalized(tokens, norms) ==
    Averaged(ScoreLoop(tokens, norms, NegationIndices(norms), 1, Zero, 0, One))

\* analyze_message from its tokens on.
ScoreTokens(tokens) ==
    IF Len(tokens) = 0 THEN MessageSentiment(Zero, "neutral", 0, FALSE)
    ELSE ScoreNormalized(tokens,
                         [i \in 1..Len(tokens) |-> normalize_token(tokens[i])])

analyze_message(content) ==
    IF is_meta_message(content) THEN MessageSentiment(Zero, "meta", 1, TRUE)
    ELSE ScoreTokens(tokenize(content))

(***************************************************************************)
(* engagement.py                                                           *)
(***************************************************************************)

\* User ids of the model.
U_abc      == <<117,115,101,114,95,97,98,99>>                      \* user_abc
U_bob      == <<117,115,101,114,95,98,111,98>>                     \* user_bob
U_mbras_x  == <<117,115,101,114,95,109,98,114,97,115,95,120>>      \* user_mbras_x
U_aaaaaaaa == <<117,115,101,114,95,97,97,97,97,97,97,97,97>>       \* user_aaaaaaaa
U_bbbbbbbb == <<117,115,101,114,95,98,98,98,98,98,98,98,98>>       \* user_bbbbbbbb
U_a007     == <<117,115,101,114,95,97,48,48,55>>                   \* user_a007
U_b_prime  == <<117,115,101,114,95,98,95,112,114,105,109,101>>     \* user_b_prime
U_cafe     == <<117,115,101,114,95,99,97,102,233>>                 \* user_caf + U+00E9
U_ab_prime == <<117,115,101,114,95,97,98,95,112,114,105,109,101>>  \* user_ab_prime
U_jose_abc == <<117,115,101,114,95,106,111,115,233,95,97,98,99>>   \* user_jos + U+00E9 + _abc
U_MBRAS007 == <<117,115,101,114,95,77,66,82,65,83,48,48,55>>       \* user_MBRAS007

\* _base_followers: (int(sha256(user_id).hexdigest(), 16) % 10000) + 100,
\* tabulated with hashlib for the user ids of the model.
BaseFollowersTable == {
    <<U_abc, 113>>, <<U_bob, 3543>>, <<U_mbras_x, 5952>>,
    <<U_aaaaaaaa, 5028>>, <<U_bbbbbbbb, 4922>>, <<U_a007, 2812>>,
    <<U_b_prime, 1735>>, <<U_cafe, 2323>>, <<U_ab_prime, 5576>>,
    <<U_jose_abc, 6159>>, <<U_MBRAS007, 938>> }

_base_followers(user_id) ==
    (CHOOSE e \in BaseFollowersTable : e[1] = user_id)[2]

_has_non_ascii(text) == \E i \in 1..Len(text) : text[i] > 127

S_prime == <<95,112,114,105,109,101>>   \* "_prime"
S_007   == <<48,48,55>>                 \* "007"
S_mbras == <<109,98,114,97,115>>        \* "mbras"

\* Mutant: the "_prime" rule tested before the length rule.
compute_followers_prime_first(user_id) ==
    IF _has_non_ascii(user_id) THEN 4242
    ELSE IF EndsWith(lower(user_id), S_prime)
    THEN next_prime(_base_followers(user_id))
    ELSE IF Len(user_id) = 13 THEN fibonacci(13)
    ELSE _base_followers(user_id)

compute_followers(user_id) ==
    IF _has_non_ascii(user_id) THEN 4242
    ELSE IF Len(user_id) = 13 THEN fibonacci(13)
    ELSE IF EndsWith(lower(user_id), S_prime)
    THEN next_prime(_base_followers(user_id))
    ELSE _base_followers(user_id)

UserStats(user_id) ==
    [user_id |-> user_id, total_reactions |-> 0, total_shares |-> 0,
     total_views |-> 0, messages |-> 0]

register(stats, reactions, shares, views) ==
    [stats EXCEPT !.total_reactions = @ + reactions,
                  !.total_shares = @ + shares,
                  !.total_views = @ + views,
                  !.messages = @ + 1]

interactions(stats) == stats.total_reactions + stats.total_shares

\* 1 + 1/GOLDEN_RATIO = 1.618033988749895 in units of 1e-6: integer part and
\* the next six decimals.
GoldenBoost == [int |-> 1618033, frac |-> 988750]

NoBoost == [int |-> 1000000, frac |-> 0]

\* UserStats.engagement_rate as [num, den, factor]: the float is
\* num/den * factor/1e6; total_views <= 0 gives 0.0.
engagement_rate(stats) ==
    IF stats.total_views <= 0 THEN [num |-> 0, den |-> 1, factor |-> NoBoost]
    ELSE [num |-> interactions(stats), den |-> stats.total_views,
          factor |-> IF interactions(stats) > 0 /\ interactions(stats) % 7 = 0
                     THEN GoldenBoost ELSE NoBoost]

\* round(rate * tenths/10, 6) in units of 1e-6, computed without leaving
\* 32-bit integers: numerator rate.num * tenths * factor, divisor 10 * den.
\* round((N + e/2000000) / d) to the nearest integer, ties to even
\* (0 <= e < 2000000).
RoundScaled(N, e, d) ==
    LET q == N \div d
        r == N % d
    IN  IF 2 * r > d \/ (2 * r = d /\ e > 0) \/ (2 * r = d - 1 /\ e > 1000000)
        THEN q + 1
        ELSE IF /\ (2 * r = d /\ e = 0) \/ (2 * r = d - 1 /\ e = 1000000)
                /\ q % 2 = 1
        THEN q + 1
        ELSE q

\* round(m * factor / d, 6) in units of 1e-6, factor = int + frac/1e6.
ScaledMicro(m, factor, d) ==
    RoundScaled(m * factor.int + (m * factor.frac) \div 1000000,
                2 * ((m * factor.frac) % 1000000), d)

RateMicro(rate, tenths) == ScaledMicro(rate.num * tenths, rate.factor, 10 * rate.den)

\* One entry of the ranking (the body of build_influence_ranking's loop).
\* influence = followers*0.4 + engagement*0.6, halved for a "007" suffix,
\* plus 2.0 for an id containing "mbras"; followers*0.4 (or *0.2) is an exact
\* multiple of 0.1, so rounding the sum rounds the engagement part.
\* influence_score from followers*0.4 (or *0.2) in tenths, the micro units
\* below one tenth of it plus the engagement part, and the "mbras" bonus.
InfluenceScore(tenths, micros, bonus) ==
    [whole |-> tenths \div 10 + micros \div 1000000 + bonus,
     micro |-> micros % 1000000]

InfluenceOf(followers, engagement, halved, bonus) ==
    InfluenceScore(followers * (IF halved THEN 2 ELSE 4),
                   ((followers * (IF halved THEN 2 ELSE 4)) % 10) * 100000
                       + RateMicro(engagement, IF halved THEN 3 ELSE 6),
                   IF bonus THEN 2 ELSE 0)

RankingEntry(user_id, followers, engagement) ==
    [user_id |-> user_id,
     followers |-> followers,
     engagement_rate |-> RateMicro(engagement, 10),
     influence_score |->
         InfluenceOf(followers, engagement,
                     EndsWith(lower(user_id), S_007),
                     Contains(lower(user_id), S_mbras))]

InfluenceEntry(stats) ==
    RankingEntry(stats.user_id, compute_followers(stats.user_id),
                 engagement_rate(stats))

RECURSIVE StrLess(_, _)
\* Python's str `<`: lexicographic on code points.
StrLess(a, b) ==
    IF Len(b) = 0 THEN FALSE
    ELSE IF Len(a) = 0 THEN TRUE
    ELSE IF a[1] # b[1] THEN a[1] < b[1]
    ELSE StrLess(Tail(a), Tail(b))

ScoreLess(x, y) ==
    x.whole < y.whole \/ (x.whole = y.whole /\ x.micro < y.micro)

\* Mutant: the sort key without user_id.
RankKeyLessScoreOnly(a, b) == ScoreLess(b.influence_score, a.influence_score)

\* key(a) < key(b) for key = (-influence_score, user_id)
RankKeyLess(a, b) ==
    \/ ScoreLess(b.influence_score, a.influence_score)
    \/ /\ a.influence_score = b.influence_score
       /\ StrLess(a.user_id, b.user_id)

RECURSIVE InsertRanked(_, _)
\* Stable insertion: e goes after every entry whose key is <= its key.
InsertRanked(sorted, e) ==
    IF Len(sorted) = 0 THEN <<e>>
    ELSE IF RankKeyLess(e, sorted[1]) THEN <<e>> \o sorted
    ELSE <<sorted[1]>> \o InsertRanked(Tail(sorted), e)

RECURSIVE SortRanking(_, _)
\* ranking.sort(key=...): a stable sort.
SortRanking(ranking, i) ==
    IF i = 0 THEN <<>>
    ELSE InsertRanked(SortRanking(ranking, i - 1), ranking[i])

\* user_stats is the dict as the sequence of its values in insertion order.
build_influence_ranking(user_stats) ==
    SortRanking([k \in 1..Len(user_stats) |-> InfluenceEntry(user_stats[k])],
                Len(user_stats))

(***************************************************************************)
(* anomaly.py                                                              *)
(***************************************************************************)

RECURSIVE InsertSorted(_, _)
InsertSorted(sorted, x) ==
    IF Len(sorted) = 0 THEN <<x>>
    ELSE IF x < sorted[1] THEN <<x>> \o sorted
    ELSE <<sorted[1]>> \o InsertSorted(Tail(sorted), x)

RECURSIVE SortPrefix(_, _)
SortPrefix(timestamps, i) ==
    IF i = 0 THEN <<>>
    ELSE InsertSorted(SortPrefix(timestamps, i - 1), timestamps[i])

\* Mutant: the list left as it was given.
sort_skipped(timestamps) == timestamps

\* timestamps.sort()
sort(timestamps) == SortPrefix(timestamps, Len(timestamps))

RECURSIVE AdvanceLeft(_, _, _, _)
\* while ts - timestamps[left] > window: left += 1
AdvanceLeft(timestamps, left, ts, window) ==
    IF ts - timestamps[left] > window
    THEN AdvanceLeft(timestamps, left + 1, ts, window)
    ELSE left

\* detect_burst: threshold's default, and the window in seconds.
BURST_THRESHOLD == 10

BURST_WINDOW == 5 * 60

RECURSIVE BurstScan(_, _, _)
\* The enumerate loop of detect_burst over one user's sorted timestamps.
BurstScan(timestamps, right, left) ==
    IF right > Len(timestamps) THEN FALSE
    ELSE LET l == AdvanceLeft(timestamps, left, timestamps[right], BURST_WINDOW)
         IN  IF right - l + 1 > BURST_THRESHOLD THEN TRUE
             ELSE BurstScan(timestamps, right + 1, l)

\* Mutant: the scan run on each list as given, without timestamps.sort().
detect_burst_unsorted(messages_by_user) ==
    \E k \in 1..Len(messages_by_user) : BurstScan(messages_by_user[k], 1, 1)

\* messages_by_user: the dict's values (timestamp lists) in insertion order.
detect_burst(messages_by_user) ==
    \E k \in 1..Len(messages_by_user) :
        BurstScan(sort(messages_by_user[k]), 1, 1)

\* detect_alternating_pattern: required_length's default.
REQUIRED_LENGTH == 10

RECURSIVE MaxSequence(_, _, _, _)
\* The zip loop: i is the index of `current`; returns max_sequence.
MaxSequence(filtered, i, current_sequence, max_sequence) ==
    IF i > Len(filtered) THEN max_sequence
    ELSE IF filtered[i - 1] # filtered[i]
    THEN MaxSequence(filtered, i + 1, current_sequence + 1,
                     IF current_sequence + 1 > max_sequence
                     THEN current_sequence + 1 ELSE max_sequence)
    ELSE MaxSequence(filtered, i + 1, 1, max_sequence)

\* Mutant: neutral labels left in the sequence.
AlternatingInUserWithNeutrals(sentiments) ==
    IF Len(sentiments) < REQUIRED_LENGTH THEN FALSE
    ELSE MaxSequence(sentiments, 2, 1, 1) >= REQUIRED_LENGTH

AlternatingInUser(sentiments) ==
    LET filtered == SelectSeq(sentiments,
                              LAMBDA label : label \in {"positive", "negative"})
    IN  IF Len(filtered) < REQUIRED_LENGTH THEN FALSE
        ELSE MaxSequence(filtered, 2, 1, 1) >= REQUIRED_LENGTH

detect_alternating_pattern(sentiments_by_user) ==
    \E k \in 1..Len(sentiments_by_user) :
        AlternatingInUser(sentiments_by_user[k])

\* detect_synchronized_posting: window in seconds, and the count needed.
SYNC_WINDOW == 4

SYNC_COUNT == 3

RECURSIVE SyncScan(_, _, _)
SyncScan(timestamps, right, left) ==
    IF right > Len(timestamps) THEN FALSE
    ELSE LET l == AdvanceLeft(timestamps, left, timestamps[right], SYNC_WINDOW)
         IN  IF right - l + 1 >= SYNC_COUNT THEN TRUE
             ELSE SyncScan(timestamps, right + 1, l)

\* Mutant: the scan run on the list as given, without timestamps.sort().
detect_synchronized_posting_unsorted(timestamps) ==
    IF Len(timestamps) < 3 THEN FALSE
    ELSE SyncScan(timestamps, 1, 1)

detect_synchronized_posting(timestamps) ==
    IF Len(timestamps) < 3 THEN FALSE
    ELSE SyncScan(sort(timestamps), 1, 1)

RECURSIVE KeysInOrder(_, _, _)
\* The keys of a dict filled from pairs <<key, value>>, in insertion order.
KeysInOrder(pairs, i, acc) ==
    IF i > Len(pairs) THEN acc
    ELSE KeysInOrder(pairs, i + 1,
                     IF \E k \in 1..Len(acc) : acc[k] = pairs[i][1]
                     THEN acc ELSE Append(acc, pairs[i][1]))

\* defaultdict(list) filled by `d[key].append(value)`: the value lists in
\* insertion order of their keys.
PairValues(mine) == [j \in 1..Len(mine) |-> mine[j][2]]

GroupByKeys(pairs, keys) ==
    [k \in 1..Len(keys) |->
        PairValues(SelectSeq(pairs, LAMBDA p : p[1] = keys[k]))]

GroupByUser(pairs) == GroupByKeys(pairs, KeysInOrder(pairs, 1, <<>>))

detect_anomalies(message_time_pairs, sentiment_labels) ==
    [burst_activity |-> detect_burst(GroupByUser(message_time_pairs)),
     alternating_sentiment |->
         detect_alternating_pattern(GroupByUser(sentiment_labels)),
     synchronized_posting |->
         detect_synchronized_posting(
             [j \in 1..Len(message_time_pairs) |-> message_time_pairs[j][2]])]

(***************************************************************************)
(* analyzer.py                                                             *)
(***************************************************************************)

\* A message: [content, timestamp, user_id, reactions, shares, views]
\* (id is never read by the analyzer; hashtags feed only trending_topics).
Message(content, timestamp, user_id, reactions, shares, views) ==
    [content |-> content, timestamp |-> timestamp, user_id |-> user_id,
     reactions |-> reactions, shares |-> shares, views |-> views]

\* The reserved time window.
UNSUPPORTED_WINDOW == 123

\* Mutant: the sentinel read as a range check.
IsUnsupportedWindowRange(window) == window >= 123

\* analyze_feed's first test.
IsUnsupportedWindow(window) == window = UNSUPPORTED_WINDOW

\* The slack added to the anchor, in seconds.
ANCHOR_SLACK == 5

Max(a, b) == IF a > b THEN a ELSE b

\* max(timestamps)
reference_time(msgs) ==
    CHOOSE t \in {msgs[i].timestamp : i \in 1..Len(msgs)} :
        \A i \in 1..Len(msgs) : msgs[i].timestamp <= t

\* Mutant: the lower bound of the window made exclusive.
InWindowExclusive(timestamp, window_start, anchor_time) ==
    window_start < timestamp /\ timestamp <= anchor_time + 5

\* The condition of the filtered_messages comprehension.
InWindow(timestamp, window_start, anchor_time) ==
    window_start <= timestamp /\ timestamp <= anchor_time + ANCHOR_SLACK

\* filtered_messages for a non-empty list.
FilterBetween(msgs, window_start, anchor_time) ==
    SelectSeq(msgs,
              LAMBDA msg : InWindow(msg.timestamp, window_start, anchor_time))

\* Mutant: the anchor taken from the evaluation instant alone.
FilterFromRequest(msgs, window, request_instant, ref) ==
    FilterBetween(msgs, ref - window * 60, request_instant)

FilterFrom(msgs, window, request_instant, ref) ==
    FilterBetween(msgs, ref - window * 60, Max(request_instant, ref))

FilterMessages(msgs, window, request_instant) ==
    FilterFrom(msgs, window, request_instant, reference_time(msgs))

_empty_response ==
    [sentiment_distribution |-> [positive |-> 0, negative |-> 0, neutral |-> 0],
     engagement_score |-> 0,
     influence_ranking |-> <<>>,
     anomaly_detected |-> FALSE,
     anomaly_details |-> [burst_activity |-> FALSE,
                          alternating_sentiment |-> FALSE,
                          synchronized_posting |-> FALSE],
     flags |-> [mbras_employee |-> FALSE, special_pattern |-> FALSE,
                candidate_awareness |-> FALSE]]

RECURSIVE BuildUserStats(_, _, _)
\* per_user_stats after the loop: setdefault + register per message.
BuildUserStats(msgs, i, acc) ==
    IF i > Len(msgs) THEN acc
    ELSE LET msg  == msgs[i]
             acc1 == IF \E k \in 1..Len(acc) : acc[k].user_id = msg.user_id
                     THEN acc ELSE Append(acc, UserStats(msg.user_id))
             k    == CHOOSE k \in 1..Len(acc1) : acc1[k].user_id = msg.user_id
         IN  BuildUserStats(msgs, i + 1,
                 [acc1 EXCEPT ![k] = register(@, msg.reactions, msg.shares,
                                              msg.views)])

RECURSIVE SumField(_, _, _)
\* total_reactions / total_shares / total_views after the loop.
SumField(msgs, i, field) ==
    IF i = 0 THEN 0 ELSE SumField(msgs, i - 1, field) + msgs[i][field]

\* _build_distribution over the sentiments of all users.
_build_distribution(sentiments) ==
    LET Count(label) ==
            Cardinality({i \in 1..Len(sentiments) :
                            ~sentiments[i].is_meta /\ sentiments[i].label = label})
        total_messages ==
            Cardinality({i \in 1..Len(sentiments) : ~sentiments[i].is_meta})
    IN  IF total_messages = 0
        THEN [positive |-> 0, negative |-> 0, neutral |-> 0]
        ELSE [positive |-> DivRound(Count("positive") * 10000, total_messages),
              negative |-> DivRound(Count("negative") * 10000, total_messages),
              neutral  |-> DivRound(Count("neutral") * 10000, total_messages)]

\* _compute_engagement_score followed by round(engagement_score, 4).
_compute_engagement_score(reactions, shares, views) ==
    DivRound((reactions + shares) * 10000, Max(views, 1))

\* The fixed engagement score 9.42.
CANDIDATE_SCORE == 94200

\* The phrase literal of the candidate_awareness test, exactly as the source
\* file spells it (the same 20 characters as META_PHRASE).
CANDIDATE_PHRASE ==
    <<116,101,115,116,101,32,116,195,169,99,110,105,99,111,32,109,98,114,97,115>>

\* The candidate_awareness test of the message loop.
CandidateAware(content) == accent_insensitive_contains(content, CANDIDATE_PHRASE)

\* flags after the loop.
Flags(filtered) ==
    [mbras_employee |->
         \E i \in 1..Len(filtered) :
             Contains(lower(filtered[i].user_id), S_mbras),
     special_pattern |->
         \E i \in 1..Len(filtered) :
             /\ Len(filtered[i].content) = 42
             /\ accent_insensitive_contains(filtered[i].content, S_mbras),
     candidate_awareness |->
         \E i \in 1..Len(filtered) : CandidateAware(filtered[i].content)]

\* sentiment_labels after the loop: <<user_id, label>> of the non-meta
\* messages at the indices `nonmeta`.
SentimentLabels(filtered, sentiments, nonmeta) ==
    [j \in 1..Len(nonmeta) |->
        <<filtered[nonmeta[j]].user_id, sentiments[nonmeta[j]].label>>]

\* message_time_pairs after the loop.
MessageTimePairs(filtered) ==
    [i \in 1..Len(filtered) |-> <<filtered[i].user_id, filtered[i].timestamp>>]

\* The returned dict (analyzer.py lines 103-118).
Report(distribution, traffic_score, ranking, anomalies, flags) ==
    [sentiment_distribution |-> distribution,
     engagement_score |->
         IF flags.candidate_awareness THEN CANDIDATE_SCORE ELSE traffic_score,
     influence_ranking |-> ranking,
     anomaly_detected |->
         \/ anomalies.burst_activity
         \/ anomalies.alternating_sentiment
         \/ anomalies.synchronized_posting,
     anomaly_details |-> anomalies,
     flags |-> flags]

\* The report from the filtered list and its per-message sentiments.
ReportOf(filtered, sentiments) ==
    Report(_build_distribution(sentiments),
           _compute_engagement_score(
               SumField(filtered, Len(filtered), "reactions"),
               SumField(filtered, Len(filtered), "shares"),
               SumField(filtered, Len(filtered), "views")),
           build_influence_ranking(BuildUserStats(filtered, 1, <<>>)),
           detect_anomalies(
               MessageTimePairs(filtered),
               SentimentLabels(filtered, sentiments,
                   SelectSeq([i \in 1..Len(filtered) |-> i],
                             LAMBDA i : ~sentiments[i].is_meta))),
           Flags(filtered))

\* The report for a non-empty filtered list (analyzer.py lines 45-118).
BuildReport(filtered) ==
    ReportOf(filtered,
             [i \in 1..Len(filtered) |-> analyze_message(filtered[i].content)])

NoReport == [none |-> TRUE]

\* analyze_feed from filtered_messages on.
Analyzed(filtered) ==
    [raised |-> FALSE, error |-> "", filtered |-> filtered,
     report |-> IF Len(filtered) = 0 THEN _empty_response
                ELSE BuildReport(filtered)]

\* analyze_feed as a function of its inputs:
\* [raised, error, filtered, report].
analyze_feed(msgs, window, request_instant) ==
    IF IsUnsupportedWindow(window)
    THEN [raised |-> TRUE, error |-> "UNSUPPORTED_TIME_WINDOW",
          filtered |-> <<>>, report |-> NoReport]
    ELSE IF Len(msgs) = 0
    THEN [raised |-> FALSE, error |-> "", filtered |-> <<>>,
          report |-> _empty_response]
    ELSE Analyzed(FilterMessages(msgs, window, request_instant))

(***************************************************************************)
(* The state machine: one call of analyze_feed on the inputs of Init.      *)
(***************************************************************************)

\* The call ends with outcome `out`.
Finish(out) ==
    /\ pc' = IF out.raised THEN "raised" ELSE "returned"
    /\ error' = out.error
    /\ filtered_messages' = out.filtered
    /\ analysis' = out.report

AnalyzeFeed ==
    /\ pc = "called"
    /\ Finish(analyze_feed(messages, time_window_minutes, request_time))
    /\ UNCHANGED <<messages, time_window_minutes, request_time>>

Next == AnalyzeFeed

(***************************************************************************)
(* Inputs                                                                  *)
(***************************************************************************)

C_bom  == <<98,111,109>>       \* "bom": positive
C_ruim == <<114,117,105,109>>  \* "ruim": negative
C_ok   == <<111,107>>          \* "ok": neutral

\* "teste t<U+00E9>cnico mbras": the phrase of the specification.
PHRASE ==
    <<116,101,115,116,101,32,116,233,99,110,105,99,111,32,109,98,114,97,115>>

\* "Teste Tecnico MBRAS"
C_phrase_plain ==
    <<84,101,115,116,101,32,84,101,99,110,105,99,111,32,77,66,82,65,83>>

\* "vi o teste t<U+00E9>cnico mbras hoje"
C_phrase_in_text ==
    <<118,105,32,111,32>> \o PHRASE \o <<32,104,111,106,101>>

\* "  teste t<U+00E9>cnico mbras "
C_phrase_padded == <<32,32>> \o PHRASE \o <<32>>

\* A content spelled with the characters of the source file's literal.
C_source_literal == META_PHRASE

\* Sequences over pool of length lo..hi.
Lists(pool, lo, hi) == UNION {[1..n -> pool] : n \in lo..hi}

InitCall ==
    /\ pc = "called"
    /\ error = ""
    /\ filtered_messages = <<>>
    /\ analysis = NoReport

(* ---- Spec: windows, retention, synchronized posting ---- *)

MaxMsgs == 3

WindowTimes == {0, 1, 5, 10, 61}

WindowPool ==
    {Message(C_bom, t, U_abc, 3, 1, 10) : t \in WindowTimes}
    \cup {Message(C_source_literal, t, U_mbras_x, 5, 2, 0) : t \in WindowTimes}

Init ==
    /\ messages \in Lists(WindowPool, 0, MaxMsgs)
    /\ time_window_minutes \in {1, 123, 124}
    /\ request_time \in {0, 100}
    /\ InitCall

Spec == Init /\ [][Next]_vars

(* ---- SpecFlags: the phrase, the meta message, the engagement score ---- *)

MaxFlagMsgs == 2

FlagContents ==
    {C_bom, C_ok, PHRASE, C_phrase_plain, C_phrase_in_text, C_phrase_padded,
     C_source_literal}

FlagTraffic == {<<0, 0, 0>>, <<3, 1, 10>>, <<2, 5, 3>>}

FlagPool ==
    {Message(c, t, U_abc, k[1], k[2], k[3]) :
        c \in FlagContents, t \in {0, 61}, k \in FlagTraffic}

InitFlags ==
    /\ messages \in Lists(FlagPool, 0, MaxFlagMsgs)
    /\ time_window_minutes \in {1, 2}
    /\ request_time = 61
    /\ InitCall

SpecFlags == InitFlags /\ [][Next]_vars

(* ---- SpecDistribution: the sentiment distribution ---- *)

MaxDistMsgs == 6

DistPool ==
    {Message(c, 0, U_abc, 1, 0, 2) : c \in {C_bom, C_ruim, C_ok, C_source_literal}}

InitDistribution ==
    /\ messages \in Lists(DistPool, 0, MaxDistMsgs)
    /\ time_window_minutes = 1
    /\ request_time = 0
    /\ InitCall

SpecDistribution == InitDistribution /\ [][Next]_vars

(* ---- SpecBurst: one author's messages around the 5-minute window ---- *)

MaxBurstMsgs == 11

BurstLengths == 10..MaxBurstMsgs

\* n timestamps, ascending: c[1] at 0 s, c[2] at 300 s, c[3] at 301 s.
GridTimes(n, c) ==
    [i \in 1..n |-> IF i <= c[1] THEN 0
                    ELSE IF i <= c[1] + c[2] THEN 300 ELSE 301]

\* n timestamps, ascending, evenly spaced.
EvenTimes(n, step) == [i \in 1..n |-> (i - 1) * step]

BurstTimes(n) ==
    {GridTimes(n, c) : c \in {c \in [1..3 -> 0..n] : c[1] + c[2] + c[3] = n}}
    \cup {EvenTimes(n, step) : step \in {24, 30, 31, 120}}

\* The list order of the messages: ascending, descending or strided.
Reorder(ts, order) ==
    [i \in 1..Len(ts) |->
        IF order = "ascending" THEN ts[i]
        ELSE IF order = "descending" THEN ts[Len(ts) + 1 - i]
        ELSE ts[((i * 7) % Len(ts)) + 1]]

\* The author of the i-th message: one author, one author and a guest at
\* the head of the list, or two authors taking turns.
BurstAuthor(i, authors) ==
    IF authors = "guest" /\ i = 1 THEN U_bob
    ELSE IF authors = "two" /\ i % 2 = 0 THEN U_bob
    ELSE U_abc

BurstList(ts, authors) ==
    [i \in 1..Len(ts) |-> Message(C_ok, ts[i], BurstAuthor(i, authors), 1, 0, 2)]

BurstLists ==
    {BurstList(Reorder(ts, order), authors) :
        ts \in UNION {BurstTimes(n) : n \in BurstLengths},
        order \in {"ascending", "descending", "strided"},
        authors \in {"one", "guest", "two"}}

InitBurst ==
    /\ messages \in BurstLists
    /\ time_window_minutes \in {5, 30}
    /\ request_time = 0
    /\ InitCall

SpecBurst == InitBurst /\ [][Next]_vars

(* ---- SpecAlternating: one author's positive/negative sequence ---- *)

MaxAltMsgs == 11

AltLengths == 9..MaxAltMsgs

\* The number of adjacent repeats of a sequence.
Repeats(seq) == Cardinality({i \in 1..(Len(seq) - 1) : seq[i] = seq[i + 1]})

\* Sequences of "bom"/"ruim" with at most two adjacent repeats.
AltContents(n) == {c \in [1..n -> {C_bom, C_ruim}] : Repeats(c) <= 2}

\* A list of U_abc's messages 10 s apart, changed at position p: a neutral
\* message, a meta message, or a message of another author; or the whole
\* list split between two authors taking turns (p = 0).
AltList(c, kind, p) ==
    [i \in 1..Len(c) |->
        Message(IF i = p /\ kind = "neutral" THEN C_ok
                ELSE IF i = p /\ kind = "meta" THEN C_source_literal
                ELSE c[i],
                10 * i,
                IF (i = p /\ kind = "guest") \/ (kind = "split" /\ i % 2 = 0)
                THEN U_bob ELSE U_abc,
                1, 0, 2)]

AltLists ==
    UNION {{AltList(c, kind, 0) : c \in AltContents(n), kind \in {"plain", "split"}}
           \cup {AltList(c, kind, p) : c \in AltContents(n),
                                       kind \in {"neutral", "meta", "guest"},
                                       p \in 1..n}
           : n \in AltLengths}

InitAlternating ==
    /\ messages \in AltLists
    /\ time_window_minutes = 5
    /\ request_time = 0
    /\ InitCall

SpecAlternating == InitAlternating /\ [][Next]_vars

(* ---- SpecRanking: authors with equal and unequal influence ---- *)

MaxRankMsgs == 3

RankAuthors == {U_aaaaaaaa, U_bbbbbbbb, U_abc, U_mbras_x, U_a007, U_cafe}

RankPool ==
    {Message(C_ok, 0, u, k[1], k[2], k[3]) :
        u \in RankAuthors, k \in {<<3, 1, 10>>, <<0, 0, 0>>}}

InitRanking ==
    /\ messages \in Lists(RankPool, 0, MaxRankMsgs)
    /\ time_window_minutes = 1
    /\ request_time = 0
    /\ InitCall

SpecRanking == InitRanking /\ [][Next]_vars

(* ---- SpecOrder: the same messages in every list order ---- *)

MaxOrderMsgs == 3

OrderPool ==
    {Message(C_bom, 0, U_bbbbbbbb, 3, 1, 10),
     Message(C_bom, 2, U_aaaaaaaa, 3, 1, 10),
     Message(C_ruim, 50, U_abc, 5, 2, 4),
     Message(C_source_literal, 2, U_mbras_x, 1, 1, 1),
     Message(C_ok, 0, U_abc, 0, 0, 0),
     Message(C_ruim, 120, U_aaaaaaaa, 2, 0, 7)}

LongOrderMsgs == 10

\* Lists of LongOrderMsgs messages of one author, "bom"/"ruim" with at most
\* one adjacent repeat.
LongOrderLists ==
    {AltList(c, "plain", 0) :
        c \in {c \in [1..LongOrderMsgs -> {C_bom, C_ruim}] : Repeats(c) <= 1}}

InitOrder ==
    /\ messages \in Lists(OrderPool, 0, MaxOrderMsgs) \cup LongOrderLists
    /\ time_window_minutes \in {1, 5}
    /\ request_time = 0
    /\ InitCall

SpecOrder == InitOrder /\ [][Next]_vars

(* ---- SpecFollowers: identifiers of every special case ---- *)

MaxFollowerMsgs == 2

FollowerAuthors ==
    {U_abc, U_bob, U_mbras_x, U_aaaaaaaa, U_bbbbbbbb, U_a007, U_b_prime,
     U_cafe, U_ab_prime, U_jose_abc, U_MBRAS007}

FollowerPool == {Message(C_ok, 0, u, 3, 1, 10) : u \in FollowerAuthors}

InitFollowers ==
    /\ messages \in Lists(FollowerPool, 0, MaxFollowerMsgs)
    /\ time_window_minutes = 1
    /\ request_time = 0
    /\ InitCall

SpecFollowers == InitFollowers /\ [][Next]_vars

(* ---- SpecHashtags: one message, hashtags among its words ---- *)

W_nao   == <<110,97,111>>           \* "nao": a negation
W_muito == <<109,117,105,116,111>>  \* "muito": an intensifier
W_x     == <<120>>                  \* "x": no lexicon entry
W_tag   == <<35,97>>                \* "#a": a hashtag

MaxWords == 3

MaxHashtags == 3

RECURSIVE Join(_)
\* The tokens separated by single spaces.
Join(tokens) ==
    IF Len(tokens) = 0 THEN <<>>
    ELSE IF Len(tokens) = 1 THEN tokens[1]
    ELSE tokens[1] \o <<32>> \o Join(Tail(tokens))

\* words with h hashtags inserted after the first k of them.
InsertHashtags(words, k, h) ==
    [i \in 1..(Len(words) + h) |->
        IF i <= k THEN words[i]
        ELSE IF i <= k + h THEN W_tag
        ELSE words[i - h]]

\* The same, after the last word when there are fewer than g words.
WithHashtags(words, g, h) ==
    InsertHashtags(words, IF g > Len(words) THEN Len(words) ELSE g, h)

HashtagContents ==
    {Join(WithHashtags(words, g, h)) :
        words \in UNION {[1..n -> {W_nao, W_muito, C_bom, C_ruim, W_x}] :
                            n \in 1..MaxWords},
        g \in 0..MaxWords, h \in 0..MaxHashtags}

InitHashtags ==
    /\ messages \in {<<Message(c, 0, U_abc, 1, 0, 2)>> : c \in HashtagContents}
    /\ time_window_minutes = 1
    /\ request_time = 0
    /\ InitCall

SpecHashtags == InitHashtags /\ [][Next]_vars

(***************************************************************************)
(* Claims                                                                  *)
(***************************************************************************)

Returned == pc = "returned"

\* The timestamps of a list of messages, as a sequence.
Timestamps(msgs) == [i \in 1..Len(msgs) |-> msgs[i].timestamp]

\* The authors of a list of messages, as a set.
Authors(msgs) == {msgs[i].user_id : i \in 1..Len(msgs)}

\* The latest timestamp of the input list.
Latest == reference_time(messages)

\* C1: a call with time_window_minutes = 123 raises UNSUPPORTED_TIME_WINDOW
\* and returns no report, whatever the messages (the empty list included) and
\* the evaluation instant; a call with any other window never raises.
C1_WindowSentinel ==
    pc # "called" =>
        /\ (pc = "raised") <=> (time_window_minutes = 123)
        /\ pc = "raised" =>
               error = "UNSUPPORTED_TIME_WINDOW" /\ analysis = NoReport
        /\ pc = "returned" => error = "" /\ analysis # NoReport

C1_Witness ==
    /\ pc = "raised"
    /\ time_window_minutes = 123
    /\ Len(messages) = MaxMsgs
    /\ request_time > Latest

\* The retention rule as C2 states it, for the message at index i of the
\* input: reference - window minutes <= timestamp <= anchor + 5 seconds.
C2_Retained(i) ==
    LET anchor == IF request_time > Latest THEN request_time ELSE Latest
    IN  /\ Latest - 60 * time_window_minutes <= messages[i].timestamp
        /\ messages[i].timestamp <= anchor + 5

C2_RetainedList ==
    LET kept == SelectSeq([i \in 1..Len(messages) |-> i], C2_Retained)
    IN  [j \in 1..Len(kept) |-> messages[kept[j]]]

\* C2: the messages analysed are exactly those with
\* reference - window <= timestamp <= anchor + 5 s (reference the latest
\* timestamp of the whole input, anchor the later of it and the evaluation
\* instant), and the report is the one computed from those messages alone:
\* it is the report of the retained list given as the whole input, its
\* ranking has one entry per retained author, and its flags and totals read
\* no dropped message.
C2_WindowRetention ==
    (Returned /\ Len(messages) > 0) =>
        /\ filtered_messages = C2_RetainedList
        /\ analysis =
               analyze_feed(C2_RetainedList, time_window_minutes,
                            request_time).report
        /\ {analysis.influence_ranking[k].user_id :
                k \in 1..Len(analysis.influence_ranking)}
               = Authors(C2_RetainedList)
        /\ analysis.flags.mbras_employee
               <=> \E i \in 1..Len(C2_RetainedList) :
                       Contains(lower(C2_RetainedList[i].user_id), S_mbras)
        /\ ~analysis.flags.candidate_awareness =>
               analysis.engagement_score =
                   LET n == Len(C2_RetainedList)
                       views == SumField(C2_RetainedList, n, "views")
                   IN  DivRound((SumField(C2_RetainedList, n, "reactions")
                                 + SumField(C2_RetainedList, n, "shares")) * 10000,
                                IF views > 1 THEN views ELSE 1)

\* A message exactly on the lower bound is kept, an older one by the
\* "mbras" author is dropped and leaves no trace in the flags.
C2_Witness ==
    /\ Returned
    /\ time_window_minutes = 1
    /\ Len(messages) = 3
    /\ Len(filtered_messages) = 2
    /\ \E i \in 1..2 : filtered_messages[i].timestamp = Latest - 60
    /\ \E i \in 1..3 : messages[i].user_id = U_mbras_x
    /\ ~analysis.flags.mbras_employee

\* Some interval of at most `span` seconds holds at least `count` of the
\* timestamps ts (a sequence): counted from each timestamp as the earliest.
Clustered(ts, span, count) ==
    \E i \in 1..Len(ts) :
        Cardinality({j \in 1..Len(ts) : ts[i] <= ts[j] /\ ts[j] <= ts[i] + span})
            >= count

\* C9: synchronized_posting is true exactly when at least 3 retained
\* messages, of any authors, lie within one interval of at most 4 seconds
\* (bound included); fewer than 3 retained messages give false.
C9_SynchronizedPosting ==
    (Returned /\ Len(messages) > 0) =>
        /\ analysis.anomaly_details.synchronized_posting
               <=> Clustered(Timestamps(filtered_messages), 4, 3)
        /\ Len(filtered_messages) < 3 =>
               ~analysis.anomaly_details.synchronized_posting

\* Three retained messages of two authors spanning exactly 4 seconds, given
\* out of time order.
C9_Witness ==
    /\ Returned
    /\ Len(filtered_messages) = 3
    /\ Cardinality(Authors(filtered_messages)) = 2
    /\ filtered_messages[1].timestamp = 5
    /\ filtered_messages[2].timestamp = 1
    /\ filtered_messages[3].timestamp = 5
    /\ analysis.anomaly_details.synchronized_posting

\* "contains, ignoring case and accents, the phrase" of the specification.
HasPhrase(content) == Contains(normalize_token(content), normalize_token(PHRASE))

\* A meta message as the specification words it: trimmed and normalized, the
\* content equals the phrase.
IsMetaPhrase(content) ==
    normalize_token(Strip(content)) = normalize_token(PHRASE)

\* The traffic-derived score of the retained messages, in units of 1e-4.
TrafficScore(msgs) ==
    LET views == SumField(msgs, Len(msgs), "views")
    IN  DivRound((SumField(msgs, Len(msgs), "reactions")
                  + SumField(msgs, Len(msgs), "shares")) * 10000,
                 IF views > 1 THEN views ELSE 1)

\* C4: candidate_awareness is true and engagement_score is exactly 9.42 when
\* a retained message contains, ignoring case and accents, the phrase
\* "teste t<U+00E9>cnico mbras"; otherwise the flag is false and the score is
\* (reactions + shares) / max(views, 1) over the retained messages, rounded
\* to 4 decimals.
C4_CandidateAwareness ==
    (Returned /\ Len(filtered_messages) > 0) =>
        IF \E i \in 1..Len(filtered_messages) :
               HasPhrase(filtered_messages[i].content)
        THEN /\ analysis.flags.candidate_awareness
             /\ analysis.engagement_score = 94200
        ELSE /\ ~analysis.flags.candidate_awareness
             /\ analysis.engagement_score = TrafficScore(filtered_messages)

\* The labels C5 counts: those of the retained messages that are not the
\* meta phrase.
C5_Labels ==
    LET kept == SelectSeq(filtered_messages,
                          LAMBDA msg : ~IsMetaPhrase(msg.content))
    IN  [i \in 1..Len(kept) |-> ScoreTokens(tokenize(kept[i].content)).label]

C5_Count(label) ==
    Cardinality({i \in 1..Len(C5_Labels) : C5_Labels[i] = label})

\* C5: for a non-empty retained window each percentage is in [0, 100] and is
\* count/total*100 over the non-meta retained messages rounded to 2
\* decimals; the three sum to 100 up to the rounding error when a retained
\* message is non-meta, and all are 0 when every retained message is the
\* meta phrase "teste t<U+00E9>cnico mbras".
C5_Distribution ==
    (Returned /\ Len(filtered_messages) > 0) =>
        LET dist  == analysis.sentiment_distribution
            total == Len(C5_Labels)
            sum   == dist.positive + dist.negative + dist.neutral
        IN  IF total = 0
            THEN dist = [positive |-> 0, negative |-> 0, neutral |-> 0]
            ELSE /\ \A l \in {"positive", "negative", "neutral"} :
                        /\ dist[l] \in 0..10000
                        /\ dist[l] = DivRound(C5_Count(l) * 10000, total)
                 /\ sum \in 9999..10001

DistributionSum ==
    analysis.sentiment_distribution.positive
    + analysis.sentiment_distribution.negative
    + analysis.sentiment_distribution.neutral

\* C6 as stated: the three rounded percentages sum to at most 100.
C6_SumAtMost100 == Returned => DistributionSum <= 10000

\* C6, amended: the three percentages, each rounded to 2 decimals on its
\* own, sum to at most 100.01: to 0 when no non-meta message is retained
\* and to 99.99, 100.00 or 100.01 otherwise.
C6_SumWithinRounding ==
    Returned =>
        IF \A i \in 1..Len(filtered_messages) :
               is_meta_message(filtered_messages[i].content)
        THEN DistributionSum = 0
        ELSE DistributionSum \in 9999..10001

\* One positive, one negative and four neutral messages: 16.67 + 16.67 +
\* 66.67.
C6_Witness ==
    /\ Returned
    /\ analysis.sentiment_distribution =
           [positive |-> 1667, negative |-> 1667, neutral |-> 6667]

\* The input list with the messages at positions i and j exchanged.
Swapped(i, j) ==
    [k \in 1..Len(messages) |->
        IF k = i THEN messages[j] ELSE IF k = j THEN messages[i] ELSE messages[k]]

\* The report of the same call on the list with positions i and j exchanged.
ReportOfSwapped(i, j) ==
    analyze_feed(Swapped(i, j), time_window_minutes, request_time).report

Transpositions ==
    {ij \in (1..Len(messages)) \X (1..Len(messages)) : ij[1] < ij[2]}

OrderFreeFields(report) ==
    [sentiment_distribution |-> report.sentiment_distribution,
     engagement_score |-> report.engagement_score,
     influence_ranking |-> report.influence_ranking,
     burst_activity |-> report.anomaly_details.burst_activity,
     synchronized_posting |-> report.anomaly_details.synchronized_posting,
     flags |-> report.flags]

RetainedOf(u) == SelectSeq(filtered_messages, LAMBDA msg : msg.user_id = u)

\* More than `count` of the timestamps ts lie within `span` seconds of one
\* of them taken as the earliest.
MoreThanWithin(ts, span, count) ==
    \E i \in 1..Len(ts) :
        Cardinality({j \in 1..Len(ts) : ts[i] <= ts[j] /\ ts[j] <= ts[i] + span})
            > count

\* Earliest and latest retained timestamps differ by at most `span`.
SpanAtMost(span) ==
    \A i, j \in 1..Len(filtered_messages) :
        filtered_messages[j].timestamp - filtered_messages[i].timestamp <= span

\* The retained timestamps are those of 11 messages spread evenly over 20
\* minutes.
SpreadOverTwentyMinutes ==
    {filtered_messages[i].timestamp : i \in 1..Len(filtered_messages)}
        = {120 * k : k \in 0..10}

\* C7: burst_activity is true exactly when some single author has more than
\* 10 retained messages within one interval of at most 5 minutes (bound
\* included), whatever the order of the list; 11 messages of one author
\* within 4 minutes give true, the same 11 spread evenly over 20 minutes
\* give false, and 10 messages in 5 minutes give false.
C7_BurstActivity ==
    (Returned /\ Len(messages) > 0) =>
        /\ analysis.anomaly_details.burst_activity
               <=> \E u \in Authors(filtered_messages) :
                       MoreThanWithin(Timestamps(RetainedOf(u)), 300, 10)
        /\ (Len(filtered_messages) = 11 /\ Authors(filtered_messages) = {U_abc}
                /\ SpanAtMost(240))
               => analysis.anomaly_details.burst_activity
        /\ (Len(filtered_messages) = 11 /\ SpreadOverTwentyMinutes)
               => ~analysis.anomaly_details.burst_activity
        /\ Len(filtered_messages) = 10 => ~analysis.anomaly_details.burst_activity

\* Eleven messages of one author exactly 5 minutes apart at the extremes,
\* listed latest first.
C7_Witness ==
    /\ Returned
    /\ analysis.anomaly_details.burst_activity
    /\ Len(filtered_messages) = 11
    /\ messages[1].timestamp = 300
    /\ messages[11].timestamp = 0

\* An author's non-meta labels with the neutral ones removed, in list order.
AuthorLabels(u) ==
    LET labels == [i \in 1..Len(RetainedOf(u)) |->
                       analyze_message(RetainedOf(u)[i].content)]
        kept   == SelectSeq(labels,
                            LAMBDA m : ~m.is_meta /\ m.label # "neutral")
    IN  [i \in 1..Len(kept) |-> kept[i].label]

\* seq holds 10 consecutive elements in which every adjacent pair differs.
HasAlternatingRun(seq) ==
    /\ Len(seq) >= 10
    /\ \E i \in 1..(Len(seq) - 9) : \A j \in i..(i + 8) : seq[j] # seq[j + 1]

\* C8: alternating_sentiment is true exactly when, for some author, the
\* sequence of that author's non-meta labels with the neutral ones removed
\* has at least 10 elements and holds 10 consecutive elements in which every
\* adjacent pair differs; an adjacent repeat restarts the run.
C8_AlternatingSentiment ==
    Returned =>
        (analysis.anomaly_details.alternating_sentiment
            <=> \E u \in Authors(filtered_messages) :
                    HasAlternatingRun(AuthorLabels(u)))

\* Eleven messages: a neutral one in the middle is dropped from the
\* sequence, and the ten around it alternate.
C8_Witness ==
    /\ Returned
    /\ analysis.anomaly_details.alternating_sentiment
    /\ Len(messages) = 11
    /\ \E p \in 2..10 : messages[p].content = C_ok

\* a sorts before b in code-point order.
LexSmaller(a, b) ==
    \E k \in 1..(Len(b)) :
        /\ \A i \in 1..(k - 1) : i <= Len(a) /\ a[i] = b[i]
        /\ k > Len(a) \/ a[k] < b[k]

\* Score x is higher than score y.
Higher(x, y) == x.whole > y.whole \/ (x.whole = y.whole /\ x.micro > y.micro)

\* C10: the influence ranking has exactly one entry per distinct retained
\* author; of any two entries the one with the higher influence_score comes
\* first, and with equal scores the one with the smaller user_id comes
\* first, whatever the order in which the authors first appear.
C10_RankingOrder ==
    (Returned /\ Len(filtered_messages) > 0) =>
        LET ranking == analysis.influence_ranking
        IN  /\ Len(ranking) = Cardinality(Authors(filtered_messages))
            /\ {ranking[k].user_id : k \in 1..Len(ranking)}
                   = Authors(filtered_messages)
            /\ \A i, j \in 1..Len(ranking) :
                   i < j =>
                       \/ Higher(ranking[i].influence_score,
                                 ranking[j].influence_score)
                       \/ /\ ranking[i].influence_score
                                 = ranking[j].influence_score
                          /\ LexSmaller(ranking[i].user_id, ranking[j].user_id)

\* Two authors with equal scores, the larger identifier posting first, and a
\* third author between whose messages they appear.
C10_Witness ==
    /\ Returned
    /\ Len(messages) = 3
    /\ messages[1].user_id = U_bbbbbbbb
    /\ messages[2].user_id = U_aaaaaaaa
    /\ Len(analysis.influence_ranking) = 3
    /\ \E k \in 1..2 :
           /\ analysis.influence_ranking[k].user_id = U_aaaaaaaa
           /\ analysis.influence_ranking[k + 1].user_id = U_bbbbbbbb
           /\ analysis.influence_ranking[k].influence_score
                  = analysis.influence_ranking[k + 1].influence_score

\* The followers the report gives for author u.
FollowersOf(u) ==
    (CHOOSE e \in {analysis.influence_ranking[k] :
                       k \in 1..Len(analysis.influence_ranking)} :
         e.user_id = u).followers

RankedAuthors ==
    {analysis.influence_ranking[k].user_id :
        k \in 1..Len(analysis.influence_ranking)}

OnlyAscii(u) == \A i \in 1..Len(u) : u[i] <= 127

\* C11 as stated: every identifier of exactly 13 characters has 233
\* followers, whatever else is true of it.
C11_ThirteenAlways233 ==
    Returned => \A u \in RankedAuthors : Len(u) = 13 => FollowersOf(u) = 233

\* C11, amended: an identifier of exactly 13 characters, all of them ASCII,
\* has 233 followers (fibonacci(13) from a = 0, b = 1 advanced 13 steps),
\* also when it ends with "_prime"; an identifier of 13 characters holding
\* a non-ASCII character has 4242.
C11_ThirteenAscii233 ==
    Returned =>
        \A u \in RankedAuthors :
            Len(u) = 13 =>
                /\ OnlyAscii(u) => FollowersOf(u) = 233 /\ fibonacci(13) = 233
                /\ ~OnlyAscii(u) => FollowersOf(u) = 4242

\* user_ab_prime: 13 characters ending with "_prime".
C11_Witness ==
    /\ Returned
    /\ U_ab_prime \in RankedAuthors
    /\ FollowersOf(U_ab_prime) = 233

\* The content with its hashtag tokens removed.
WithoutHashtags(content) ==
    Join(SelectSeq(tokenize(content), LAMBDA token : token[1] # 35))

SameSentiment(a, b) ==
    /\ a.score.n * b.score.d = b.score.n * a.score.d
    /\ a.label = b.label
    /\ a.token_count = b.token_count

\* C12: hashtag tokens are skipped entirely by analyze_message: they do not
\* count toward analyzed_tokens and consume no negation or intensifier
\* state, so a message has the score and the label of the same message
\* without its hashtag tokens, wherever they stand.
C12_HashtagsSkipped ==
    (Returned /\ Len(filtered_messages) = 1) =>
        /\ SameSentiment(analyze_message(filtered_messages[1].content),
                         analyze_message(
                             WithoutHashtags(filtered_messages[1].content)))
        /\ analysis.sentiment_distribution[
               analyze_message(
                   WithoutHashtags(filtered_messages[1].content)).label] = 10000

\* C13: for a non-empty list, a window other than 123 and any evaluation
\* instant, the retained list is non-empty and holds every message with the
\* latest timestamp; the evaluation instant removes no message (the retained
\* messages are those not older than the window), and the fixed empty
\* report is returned only for the empty list.
C13_LatestRetained ==
    Returned =>
        /\ Len(messages) > 0 =>
               /\ Len(filtered_messages) > 0
               /\ \A i \in 1..Len(messages) :
                      messages[i].timestamp = Latest =>
                          \E j \in 1..Len(filtered_messages) :
                              filtered_messages[j] = messages[i]
               /\ filtered_messages =
                      SelectSeq(messages,
                                LAMBDA msg : msg.timestamp
                                                 >= Latest - 60 * time_window_minutes)
               /\ analysis # _empty_response
        /\ Len(messages) = 0 => analysis = _empty_response

\* The evaluation instant is earlier than every retained message, and an old
\* message is dropped while the latest one stays.
C13_Witness ==
    /\ Returned
    /\ Len(messages) = 3
    /\ \A j \in 1..Len(filtered_messages) :
           filtered_messages[j].timestamp > request_time + 5
    /\ Len(filtered_messages) < 3
    /\ \E j \in 1..Len(filtered_messages) : filtered_messages[j].timestamp = Latest

====
